---- MODULE Spec2Model ----
(***************************************************************************)
(* The chunked video upload dialog of edulearn-lms (EnhancedVideoUpload).  *)
(*                                                                         *)
(* The component is a React function component.  Every render builds new   *)
(* handleUpload / initializeUpload / uploadChunks / uploadChunk /          *)
(* completeUpload callbacks that close over the state of that render.  An  *)
(* asynchronous handleUpload run keeps the callbacks of the render in      *)
(* which the Upload button was clicked, so each run carries a snapshot of  *)
(* the state it read (the c* fields of a run record), while the setters it *)
(* calls act on the current state.  Steps are the synchronous segments     *)
(* between two awaits: JavaScript runs each of them to its next await      *)
(* without interleaving.                                                   *)
(*                                                                         *)
(* Byte counts are scaled (one unit stands for a block of bytes).  A       *)
(* nullable value is a sequence of length 0 (null) or 1.                   *)
(***************************************************************************)
EXTENDS Integers, Sequences, FiniteSets, TLC

\* ------------------------------------------------------------- bounds
\* handleUpload runs in flight at the same time
MaxRuns == 2
\* distinct upload ids the session service hands out
MaxIds == 2
\* the maxFileSize prop of the dialog, in units
MaxFileSize == 3
\* the chunkSize prop of the dialog, in units
ChunkSize == 2
\* the largest file size and chunk size of the partitioning runs
MaxPartition == 12
\* refund requests in the admin list
MaxRequests == 3

VARIABLES
    enableResume,    \* prop, fixed at construction
    chunkSize,       \* prop, fixed at construction
    maxFileSize,     \* prop, fixed at construction
    open,            \* dialog visibility
    videoFile,       \* File | null
    videoMetadata,   \* VideoMetadata | null
    title,           \* form field
    settings,        \* the other form fields and the settings tab
    disk,            \* the files the user can hand to the file input
    clock,           \* the values (Date.now() - startTime) / 1000 can take
                     \* when a chunk has been transferred
    uploadProgress,  \* UploadProgress
    uploadId, uploadUrl, uploadPreset, cloudName,   \* session fields | null
    runs,            \* the handleUpload invocations in flight, in click order
    lastReturned,    \* what the handleUpload invocation did that returned in
                     \* the step just taken | null
    rejected,        \* the file handleFileSelect refused in the step just
                     \* taken, with the text of its toast | null
    requests,        \* refund admin list: the IRefundRequest[] state
    loadingStates,   \* refund admin list: loading flag per request id | unset
    calls            \* refund admin list: the handleStatusUpdate calls that
                     \* await their PUT response

props == <<enableResume, chunkSize, maxFileSize>>
form == <<videoFile, videoMetadata, title, settings>>
session == <<uploadId, uploadUrl, uploadPreset, cloudName>>

\* the state of the refund admin list, a component of its own
refund == <<requests, loadingStates, calls>>

\* what no event of the dialog changes
fixed == <<props, disk, clock, refund>>

\* the state of the upload dialog
dialog == <<props, disk, clock, open, form, uploadProgress, session, runs,
            lastReturned, rejected>>

vars == <<fixed, open, form, uploadProgress, session, runs, lastReturned, rejected>>

Null == <<>>
Some(x) == <<x>>

\* ------------------------------------------------------------- files
\* A file name is its dot-separated parts; `type` is the declared media type.
VideoTypes == {"video/mp4", "video/webm"}
File(parts, size, type) == [name |-> parts, size |-> size, type |-> type]

\* String.prototype.toLowerCase on the extensions the model uses
toLowerCase(s) ==
    CASE s = "MP4" -> "mp4"
      [] s = "TXT" -> "txt"
      [] OTHER -> s

SUPPORTED_FORMATS == {"mp4", "avi", "mov", "wmv", "flv", "webm", "mkv", "m4v"}

\* file.name.split('.').pop()?.toLowerCase()
Extension(file) == toLowerCase(file.name[Len(file.name)])

\* Variant of validateFile that also refuses a file of exactly the size limit
validateFileBelowLimit(file) ==
    IF file.size >= maxFileSize
      THEN [valid |-> FALSE, error |-> "File size exceeds maximum allowed size"]
    ELSE IF Extension(file) = "" \/ Extension(file) \notin SUPPORTED_FORMATS
      THEN [valid |-> FALSE, error |-> "File format not supported"]
    ELSE IF file.type \notin VideoTypes
      THEN [valid |-> FALSE, error |-> "Please select a valid video file"]
    ELSE [valid |-> TRUE, error |-> ""]

\* Variant of validateFile without the check of the declared media type
validateFileAnyType(file) ==
    IF file.size > maxFileSize
      THEN [valid |-> FALSE, error |-> "File size exceeds maximum allowed size"]
    ELSE IF Extension(file) = "" \/ Extension(file) \notin SUPPORTED_FORMATS
      THEN [valid |-> FALSE, error |-> "File format not supported"]
    ELSE [valid |-> TRUE, error |-> ""]

\* { valid, error? } of validateFile; error is "" when valid
validateFile(file) ==
    IF file.size > maxFileSize
      THEN [valid |-> FALSE, error |-> "File size exceeds maximum allowed size"]
    ELSE IF Extension(file) = "" \/ Extension(file) \notin SUPPORTED_FORMATS
      THEN [valid |-> FALSE, error |-> "File format not supported"]
    ELSE IF file.type \notin VideoTypes
      THEN [valid |-> FALSE, error |-> "Please select a valid video file"]
    ELSE [valid |-> TRUE, error |-> ""]

\* file.name.replace(/\.[^/.]+$/, ''): the name without its last extension
\* (the model's names have the form stem.ext with a non-empty ext)
FileNameTitle(file) == file.name[1]

\* The files a user can pick in the model
CandidateFiles ==
    { File(<<"lesson", e>>, s, t) :
        e \in {"mp4", "txt"}, s \in {maxFileSize, maxFileSize + 1},
        t \in {"video/mp4", "text/plain"} }

\* What the user can type into the title field
Titles == {"", "  ", "lesson"}

\* Variant of trim that leaves white space in place
trimNothing(s) == s

\* title.trim()
trim(s) == IF s = "  " THEN "" ELSE s

\* ------------------------------------------------------------- chunks
Min(a, b) == IF a < b THEN a ELSE b

\* Variant of the loop whose chunk end is not clamped to the file size
RECURSIVE CreateChunksUnclamped(_, _, _, _)
CreateChunksUnclamped(fileSize, size, start, index) ==
    IF start < fileSize
      THEN LET end == start + size
           IN  <<[index |-> index, start |-> start, end |-> end, uploaded |-> FALSE]>>
               \o CreateChunksUnclamped(fileSize, size, end, index + 1)
      ELSE <<>>

\* The while loop of initializeUpload, from (start, index) on
RECURSIVE CreateChunksFrom(_, _, _, _)
CreateChunksFrom(fileSize, size, start, index) ==
    IF start < fileSize
      THEN LET end == Min(start + size, fileSize)
           IN  <<[index |-> index, start |-> start, end |-> end, uploaded |-> FALSE]>>
               \o CreateChunksFrom(fileSize, size, end, index + 1)
      ELSE <<>>

CreateChunks(fileSize, size) == CreateChunksFrom(fileSize, size, 0, 0)

\* chunk.chunk.size: the blob is videoFile.slice(start, end)
ChunkBytes(c) == c.end - c.start

\* ------------------------------------------------------------- state
\* The refund admin list is not on the page
NoRefundList == requests = <<>> /\ loadingStates = <<>> /\ calls = {}

\* The form and settings fields other than the file and the title, as
\* declared, and with every field that has an input set to another value
DefaultSettings ==
    [description |-> "", position |-> 0, tags |-> <<>>, difficulty |-> "beginner",
     isPreview |-> FALSE, enableComments |-> TRUE, enableDownloads |-> FALSE,
     selectedQuality |-> "auto", selectedFormat |-> "mp4",
     enableWatermark |-> FALSE, enableSubtitles |-> FALSE, privacy |-> "public"]

EditedSettings ==
    [description |-> "intro", position |-> 1, tags |-> <<>>, difficulty |-> "advanced",
     isPreview |-> TRUE, enableComments |-> FALSE, enableDownloads |-> TRUE,
     selectedQuality |-> "720p", selectedFormat |-> "webm",
     enableWatermark |-> TRUE, enableSubtitles |-> TRUE, privacy |-> "private"]

\* The files of the model that validateFile lets through
ValidFiles == {f \in CandidateFiles : validateFile(f).valid}

\* A JavaScript number that is not negative, kept as the fraction num / den:
\* den = 0 with num > 0 is Infinity, 0 / 0 is NaN
Number(n) == [num |-> n, den |-> 1]

\* a / b on such numbers
Div(a, b) == [num |-> a.num * b.den, den |-> a.den * b.num]

IdleProgress ==
    [total |-> 0, uploaded |-> 0, percentage |-> Number(0),
     speed |-> Number(0), remaining |-> Number(0),
     chunks |-> <<>>, status |-> "idle", error |-> Null]

Init ==
    /\ enableResume \in BOOLEAN
    /\ chunkSize = ChunkSize
    /\ maxFileSize = MaxFileSize
    /\ open = FALSE
    /\ videoFile = Null
    /\ videoMetadata = Null
    /\ title = ""
    /\ settings = DefaultSettings
    /\ disk = ValidFiles
    /\ clock = {1}
    /\ uploadProgress = IdleProgress
    /\ uploadId = Null
    /\ uploadUrl = Null
    /\ uploadPreset = Null
    /\ cloudName = Null
    /\ runs = <<>>
    /\ lastReturned = Null
    /\ rejected = Null
    /\ NoRefundList

\* ------------------------------------------------------------- runs
\* A request as the server sees it; res is "pending" until the response.
Request(kind, index, id) == [kind |-> kind, index |-> index, uploadId |-> id, res |-> "pending"]

\* The last request of a run gets its response
Answered(reqs, res) == [reqs EXCEPT ![Len(reqs)].res = res]

\* What uploadChunks and uploadChunk read of a chunk object of their render:
\* its blob and its index, never its uploaded flag
ChunkData(c) == [index |-> c.index, start |-> c.start, end |-> c.end]

\* handleUpload was clicked in a render with this state: the callbacks it
\* awaits read videoFile, uploadProgress.chunks, uploadProgress.total and the
\* session fields of that render.  Its first step sends the session-init call.
NewRun ==
    [pc |-> "init",
     cFile |-> videoFile[1],
     cChunks |-> [k \in 1..Len(uploadProgress.chunks) |-> ChunkData(uploadProgress.chunks[k])],
     cTitle |-> title,
     cTotal |-> uploadProgress.total,
     cUploadId |-> uploadId, cUploadUrl |-> uploadUrl,
     cUploadPreset |-> uploadPreset, cCloudName |-> cloudName,
     i |-> 0, uploadedBytes |-> 0,
     reqs |-> <<Request("init", 0, Null)>>,
     issued |-> Null,            \* the uploadId its own init call returned
     built |-> Null,             \* the chunk list its own init call built
     result |-> "none",          \* the terminal status this run has set
     completedAs |-> Null,       \* the progress value the run marked completed
     wrote |-> <<>>,             \* uploaded and percentage as set after each
                                 \* of its chunks that succeeded, in order
     onSuccessCalls |-> 0]

Returned(run, result) == [run EXCEPT !.pc = "done", !.result = result]

\* Variant of the error update that drops the message
ErrorProgressSilent(prev, message) == [prev EXCEPT !.status = "error"]

\* prev => ({ ...prev, status: 'error', error })
ErrorProgress(prev, message) == [prev EXCEPT !.status = "error", !.error = Some(message)]

\* prev.chunks.map((c, index) => index === i ? { ...c, uploaded } : c)
MarkChunk(prev, i, flag) ==
    [prev EXCEPT !.chunks =
        [k \in 1..Len(prev.chunks) |->
            IF k - 1 = i THEN [prev.chunks[k] EXCEPT !.uploaded = flag] ELSE prev.chunks[k]]]

\* completeUpload up to its await: returns at once without a session,
\* otherwise posts to /api/cloudinary/complete
BeginComplete(run, up) ==
    IF run.cUploadId = Null \/ run.cCloudName = Null
      THEN [run |-> Returned(run, run.result), up |-> up]
      ELSE [run |-> [run EXCEPT !.pc = "complete",
                                !.reqs = Append(@, Request("complete", 0, run.cUploadId))],
            up |-> up]

\* catch of handleUpload: the run ends with status error and the thrown message
CatchUpload(run, up, message) ==
    [run |-> Returned(run, "error"), up |-> ErrorProgress(up, message)]

\* Variant of the catch that goes on whatever enableResume says
ChunkFailureAlwaysContinues(resume) == TRUE

\* catch of uploadChunks: the loop goes on after a failed chunk exactly when
\* enableResume is set, otherwise the error is rethrown
ChunkFailureContinues(resume) == resume

\* The for loop of uploadChunks from iteration i up to its next await.
\* uploadChunk throws before any request when the session fields are missing.
RECURSIVE EnterLoop(_, _, _)
EnterLoop(run, up, i) ==
    IF i >= Len(run.cChunks)
      THEN BeginComplete(run, up)
    ELSE IF run.cUploadUrl = Null \/ run.cUploadPreset = Null \/ run.cCloudName = Null
      THEN IF ChunkFailureContinues(enableResume)
             THEN EnterLoop(run, MarkChunk(up, i, FALSE), i + 1)
             ELSE CatchUpload(run, up, "Upload not initialized")
    ELSE [run |-> [run EXCEPT !.pc = "chunk", !.i = i,
                              !.reqs = Append(@, Request("chunk", run.cChunks[i + 1].index,
                                                         run.cUploadId))],
          up |-> up]

\* uploadChunks: nothing to do when the chunk list it reads is empty
BeginChunks(run, up) ==
    IF Len(run.cChunks) = 0 THEN BeginComplete(run, up) ELSE EnterLoop(run, up, 0)

\* initializeUpload after an OK response: the new chunk list and status
InitializedProgress(prev, file) ==
    [prev EXCEPT !.total = file.size,
                 !.chunks = CreateChunks(file.size, chunkSize),
                 !.status = "uploading"]

\* Variant of initializeUpload that swallows the error instead of rethrowing
AfterInitFailureSwallowed(run, up) == BeginChunks(run, up)

\* initializeUpload after a failed response: the error is rethrown to handleUpload
AfterInitFailure(run, up) == CatchUpload(run, up, "Failed to initialize upload")

\* the progress update after chunk i succeeded, `elapsed` after the loop
\* began; total is uploadProgress.total of the render the loop reads
ChunkDoneProgress(prev, i, uploadedBytes, elapsed, total) ==
    LET speed == Div(Number(uploadedBytes), Number(elapsed))
        remaining == Div(Number(total - uploadedBytes), speed)
    IN  [MarkChunk(prev, i, TRUE) EXCEPT
            !.uploaded = uploadedBytes,
            !.percentage = [num |-> uploadedBytes * 100, den |-> prev.total],
            !.speed = speed,
            !.remaining = remaining]

\* catch of uploadChunks after the request for chunk run.i failed
AfterChunkFailure(run, up) ==
    IF ChunkFailureContinues(enableResume)
      THEN EnterLoop(run, MarkChunk(up, run.i, FALSE), run.i + 1)
      ELSE CatchUpload(run, up, "Failed to upload chunk")

\* Variant of the catch that also clears what was transferred
CompleteFailedProgressRollback(prev) ==
    [ErrorProgress(prev, "Failed to complete upload") EXCEPT
        !.uploaded = 0,
        !.chunks = [k \in 1..Len(prev.chunks) |-> [prev.chunks[k] EXCEPT !.uploaded = FALSE]]]

\* catch of completeUpload: status error, everything else as it was
CompleteFailedProgress(prev) == ErrorProgress(prev, "Failed to complete upload")

\* Variant of the catch that reports success to the caller all the same
AfterCompleteFailureNotifying(run) ==
    [Returned(run, "error") EXCEPT !.onSuccessCalls = @ + 1]

\* completeUpload's catch does not call onSuccess and returns normally
AfterCompleteFailure(run) == Returned(run, "error")

\* completeUpload after an OK response: status completed, onSuccess(url)
AfterCompleteSuccess(run, up) ==
    [Returned(run, "completed") EXCEPT
        !.completedAs = Some([up EXCEPT !.status = "completed"].chunks),
        !.onSuccessCalls = @ + 1]

\* ------------------------------------------------------------- actions
Active(k) == k \in 1..Len(runs)

RemoveAt(s, k) == [j \in 1..(Len(s) - 1) |-> IF j < k THEN s[j] ELSE s[j + 1]]

\* What is kept of a run that returned: its requests and their results, the
\* number of chunks its init built, and what it did to the status
Summary(run) ==
    [reqs |-> [j \in 1..Len(run.reqs) |->
                 [kind |-> run.reqs[j].kind, index |-> run.reqs[j].index, res |-> run.reqs[j].res]],
     built |-> IF run.built = Null THEN 0 ELSE Len(run.built[1]),
     result |-> run.result,
     completedAs |-> run.completedAs,
     onSuccessCalls |-> run.onSuccessCalls]

\* run k has moved on; a run that returned leaves the runs in flight
SetRun(k, run) ==
    /\ IF run.pc = "done"
         THEN runs' = RemoveAt(runs, k) /\ lastReturned' = Some(Summary(run))
         ELSE runs' = [runs EXCEPT ![k] = run] /\ lastReturned' = Null
    /\ rejected' = Null

InputsEnabled == open /\ uploadProgress.status # "uploading"

\* Dialog onOpenChange={setOpen}: the trigger opens, Esc / overlay closes
OpenChange ==
    /\ open' = ~open
    /\ UNCHANGED <<fixed, form, uploadProgress, session, runs>>
    /\ lastReturned' = Null /\ rejected' = Null

\* the Cancel button: onClick={() => setOpen(false)}
CancelButton ==
    /\ InputsEnabled
    /\ open' = FALSE
    /\ UNCHANGED <<fixed, form, uploadProgress, session, runs>>
    /\ lastReturned' = Null /\ rejected' = Null

\* the X button beside the file input
ClearFileButton ==
    /\ InputsEnabled
    /\ videoFile # Null
    /\ videoFile' = Null
    /\ videoMetadata' = Null
    /\ UNCHANGED <<fixed, open, title, settings, uploadProgress, session, runs>>
    /\ lastReturned' = Null /\ rejected' = Null

\* the title input: onChange={(e) => setTitle(e.target.value)}
SetTitle ==
    /\ InputsEnabled
    /\ \E t \in Titles : t # title /\ title' = t
    /\ UNCHANGED <<fixed, open, videoFile, videoMetadata, settings, uploadProgress, session, runs>>
    /\ lastReturned' = Null /\ rejected' = Null

\* the inputs of the other form fields and of the settings tab, each
\* onChange / onClick calling its setter
EditSettings ==
    /\ InputsEnabled
    /\ \E v \in {DefaultSettings, EditedSettings} : v # settings /\ settings' = v
    /\ UNCHANGED <<fixed, open, videoFile, videoMetadata, title, uploadProgress, session, runs>>
    /\ lastReturned' = Null /\ rejected' = Null

\* Variant of the handler that unselects the file when its metadata cannot
\* be read
handleFileSelectDroppingUndecoded(file, metadataOk) ==
    LET validation == validateFile(file)
    IN  IF ~validation.valid
          THEN /\ rejected' = Some([file |-> file, error |-> validation.error])
               /\ UNCHANGED <<videoFile, videoMetadata, title>>
          ELSE /\ rejected' = Null
               /\ IF metadataOk
                    THEN /\ videoFile' = Some(file)
                         /\ videoMetadata' = Some([size |-> file.size, format |-> Extension(file)])
                         /\ title' = FileNameTitle(file)
                    ELSE /\ videoFile' = Null
                         /\ UNCHANGED <<videoMetadata, title>>

\* Variant of the handler that unselects the previous file when the new one
\* is refused
handleFileSelectClearingOnInvalid(file, metadataOk) ==
    LET validation == validateFile(file)
    IN  IF ~validation.valid
          THEN /\ rejected' = Some([file |-> file, error |-> validation.error])
               /\ videoFile' = Null
               /\ videoMetadata' = Null
               /\ UNCHANGED title
          ELSE /\ rejected' = Null
               /\ videoFile' = Some(file)
               /\ IF metadataOk
                    THEN /\ videoMetadata' = Some([size |-> file.size, format |-> Extension(file)])
                         /\ title' = FileNameTitle(file)
                    ELSE UNCHANGED <<videoMetadata, title>>

\* The body of handleFileSelect for the file of the change event and the
\* outcome of extractVideoMetadata
handleFileSelectOf(file, metadataOk) ==
    LET validation == validateFile(file)
    IN  IF ~validation.valid
          THEN /\ rejected' = Some([file |-> file, error |-> validation.error])
               /\ UNCHANGED <<videoFile, videoMetadata, title>>
          ELSE /\ rejected' = Null
               /\ videoFile' = Some(file)
               /\ IF metadataOk
                    THEN /\ videoMetadata' = Some([size |-> file.size, format |-> Extension(file)])
                         /\ title' = FileNameTitle(file)
                    ELSE UNCHANGED <<videoMetadata, title>>

\* handleFileSelect: an invalid file raises the 'Invalid file' toast and
\* changes nothing; a valid one is selected and its metadata extracted, which
\* sets the title from the file name, or fails, which only raises a toast.
\* The decode is taken to settle before the next event, so the handler is
\* one step.
handleFileSelect ==
    /\ InputsEnabled
    /\ \E file \in disk, metadataOk \in BOOLEAN : handleFileSelectOf(file, metadataOk)
    /\ UNCHANGED <<fixed, open, settings, uploadProgress, session, runs>>
    /\ lastReturned' = Null

\* the Upload Video button is disabled without a file, without a title and
\* while the status is uploading
UploadButtonEnabled ==
    open /\ videoFile # Null /\ trim(title) # "" /\ uploadProgress.status # "uploading"

\* handleUpload up to its first await (the fetch of initializeUpload)
handleUpload ==
    /\ UploadButtonEnabled
    /\ Len(runs) < MaxRuns
    /\ videoFile # Null
    /\ trim(title) # ""
    /\ runs' = Append(runs, NewRun)
    /\ UNCHANGED <<fixed, open, form, uploadProgress, session>>
    /\ lastReturned' = Null /\ rejected' = Null

\* /api/cloudinary/init answered OK for run k; the response carries the
\* session the service opened for this call (id stands for its four fields)
initializeUploadOk(k) ==
    /\ Active(k) /\ runs[k].pc = "init"
    /\ \E id \in 1..MaxIds :
        /\ uploadId' = Some(id) /\ uploadUrl' = Some(id)
        /\ uploadPreset' = Some(id) /\ cloudName' = Some(id)
        /\ LET up  == InitializedProgress(uploadProgress, runs[k].cFile)
               run == [runs[k] EXCEPT !.reqs = Answered(@, "ok"),
                                      !.issued = Some(id),
                                      !.built = Some(up.chunks)]
               nxt == BeginChunks(run, up)
           IN  /\ SetRun(k, nxt.run)
               /\ uploadProgress' = nxt.up
    /\ UNCHANGED <<fixed, open, form>>

\* /api/cloudinary/init answered non-2xx, or the fetch failed
initializeUploadFail(k) ==
    /\ Active(k) /\ runs[k].pc = "init"
    /\ LET run == [runs[k] EXCEPT !.reqs = Answered(@, "fail")]
           nxt == AfterInitFailure(run, uploadProgress)
       IN  /\ SetRun(k, nxt.run)
           /\ uploadProgress' = nxt.up
    /\ UNCHANGED <<fixed, open, form, session>>

\* the chunk request of run k answered 2xx
uploadChunkOk(k) ==
    /\ Active(k) /\ runs[k].pc = "chunk"
    /\ \E elapsed \in clock :
        LET bytes == runs[k].uploadedBytes + ChunkBytes(runs[k].cChunks[runs[k].i + 1])
            done == ChunkDoneProgress(uploadProgress, runs[k].i, bytes, elapsed, runs[k].cTotal)
            run == [runs[k] EXCEPT !.reqs = Answered(@, "ok"), !.uploadedBytes = bytes,
                                   !.wrote = Append(@, [uploaded |-> done.uploaded,
                                                        percentage |-> done.percentage,
                                                        elapsed |-> elapsed,
                                                        speed |-> done.speed,
                                                        remaining |-> done.remaining])]
            nxt == EnterLoop(run, done, run.i + 1)
        IN  /\ SetRun(k, nxt.run)
            /\ uploadProgress' = nxt.up
    /\ UNCHANGED <<fixed, open, form, session>>

\* the chunk request of run k answered non-2xx, or the fetch failed
uploadChunkFail(k) ==
    /\ Active(k) /\ runs[k].pc = "chunk"
    /\ LET run == [runs[k] EXCEPT !.reqs = Answered(@, "fail")]
           nxt == AfterChunkFailure(run, uploadProgress)
       IN  /\ SetRun(k, nxt.run)
           /\ uploadProgress' = nxt.up
    /\ UNCHANGED <<fixed, open, form, session>>

\* Variant of resetForm that leaves the other form fields and the settings
resetFormKeepingSettings ==
    /\ videoFile' = Null
    /\ videoMetadata' = Null
    /\ title' = ""
    /\ UNCHANGED settings
    /\ uploadProgress' = IdleProgress
    /\ uploadId' = Null /\ uploadUrl' = Null
    /\ uploadPreset' = Null /\ cloudName' = Null

\* resetForm, for the fields the model keeps
resetForm ==
    /\ videoFile' = Null
    /\ videoMetadata' = Null
    /\ title' = ""
    /\ settings' = DefaultSettings
    /\ uploadProgress' = IdleProgress
    /\ uploadId' = Null /\ uploadUrl' = Null
    /\ uploadPreset' = Null /\ cloudName' = Null

\* /api/cloudinary/complete answered OK: completed, onSuccess, resetForm, close
completeUploadOk(k) ==
    /\ Active(k) /\ runs[k].pc = "complete"
    /\ LET run == [runs[k] EXCEPT !.reqs = Answered(@, "ok")]
       IN  SetRun(k, AfterCompleteSuccess(run, uploadProgress))
    /\ resetForm
    /\ open' = FALSE
    /\ UNCHANGED fixed

\* /api/cloudinary/complete answered non-2xx, or the fetch failed
completeUploadFail(k) ==
    /\ Active(k) /\ runs[k].pc = "complete"
    /\ LET run == [runs[k] EXCEPT !.reqs = Answered(@, "fail")]
       IN  SetRun(k, AfterCompleteFailure(run))
    /\ uploadProgress' = CompleteFailedProgress(uploadProgress)
    /\ UNCHANGED <<fixed, open, form, session>>

\* Every event of the dialog: the user's, and the answers to the requests
Next ==
    \/ OpenChange
    \/ CancelButton
    \/ ClearFileButton
    \/ SetTitle
    \/ handleFileSelect
    \/ handleUpload
    \/ \E k \in 1..MaxRuns : initializeUploadOk(k)
    \/ \E k \in 1..MaxRuns : initializeUploadFail(k)
    \/ \E k \in 1..MaxRuns : uploadChunkOk(k)
    \/ \E k \in 1..MaxRuns : uploadChunkFail(k)
    \/ \E k \in 1..MaxRuns : completeUploadOk(k)
    \/ \E k \in 1..MaxRuns : completeUploadFail(k)

Spec == Init /\ [][Next]_vars

\* ------------------------------------------------------------- partitioning
\* A dialog built with any chunk size, in which a valid file of any size has
\* been selected and titled
InitPartition ==
    /\ enableResume = TRUE
    /\ chunkSize \in 1..MaxPartition
    /\ maxFileSize = MaxPartition
    /\ open = TRUE
    /\ \E size \in 1..MaxPartition :
        /\ videoFile = Some(File(<<"lesson", "mp4">>, size, "video/mp4"))
        /\ videoMetadata = Some([size |-> size, format |-> "mp4"])
    /\ title = "lesson"
    /\ settings = DefaultSettings
    /\ disk = {}
    /\ clock = {1}
    /\ uploadProgress = IdleProgress
    /\ uploadId = Null /\ uploadUrl = Null
    /\ uploadPreset = Null /\ cloudName = Null
    /\ runs = <<>>
    /\ lastReturned = Null
    /\ rejected = Null
    /\ NoRefundList

\* Upload is clicked and the session-init call is answered
NextPartition ==
    \/ handleUpload
    \/ \E k \in 1..MaxRuns : initializeUploadOk(k)
    \/ \E k \in 1..MaxRuns : initializeUploadFail(k)

SpecPartition == InitPartition /\ [][NextPartition]_vars

\* ------------------------------------------------------------- validation
\* The file names, sizes and declared media types of the validation runs
ValidateNames ==
    {<<"lesson", e>> : e \in {"mp4", "MP4", "webm", "txt", "TXT", ""}}
ValidateTypes == {"video/mp4", "video/webm", "text/plain", ""}

\* A dialog built with any size limit, and one file of any name, size and
\* declared type for the user to pick
InitValidate ==
    /\ enableResume = TRUE
    /\ chunkSize = ChunkSize
    /\ maxFileSize \in 1..MaxFileSize
    /\ open = FALSE
    /\ videoFile = Null
    /\ videoMetadata = Null
    /\ title = ""
    /\ settings = DefaultSettings
    /\ \E parts \in ValidateNames, size \in 0..(MaxFileSize + 1), type \in ValidateTypes :
        disk = {File(parts, size, type)}
    /\ clock = {1}
    /\ uploadProgress = IdleProgress
    /\ uploadId = Null /\ uploadUrl = Null
    /\ uploadPreset = Null /\ cloudName = Null
    /\ runs = <<>>
    /\ lastReturned = Null
    /\ rejected = Null
    /\ NoRefundList

\* The dialog is opened and closed and the file picked and cleared
NextValidate ==
    \/ OpenChange
    \/ handleFileSelect
    \/ ClearFileButton

SpecValidate == InitValidate /\ [][NextValidate]_vars

\* ------------------------------------------------------------- form
\* The file validateFile lets through and, for each of its three checks, the
\* one file that fails that check alone
FormFiles ==
    {f \in CandidateFiles :
        Cardinality({c \in {"size", "format", "type"} :
            \/ c = "size" /\ f.size > maxFileSize
            \/ c = "format" /\ Extension(f) \notin SUPPORTED_FORMATS
            \/ c = "type" /\ f.type \notin VideoTypes}) <= 1}

\* The dialog as constructed, with files on the disk that validateFile
\* refuses beside the one it lets through
InitForm ==
    /\ enableResume \in BOOLEAN
    /\ chunkSize = ChunkSize
    /\ maxFileSize = MaxFileSize
    /\ open = FALSE
    /\ videoFile = Null
    /\ videoMetadata = Null
    /\ title = ""
    /\ settings = DefaultSettings
    /\ disk = FormFiles
    /\ clock = {1}
    /\ uploadProgress = IdleProgress
    /\ uploadId = Null /\ uploadUrl = Null
    /\ uploadPreset = Null /\ cloudName = Null
    /\ runs = <<>>
    /\ lastReturned = Null
    /\ rejected = Null
    /\ NoRefundList

\* The user opens and closes the dialog, picks files, edits the other
\* fields and clicks Upload; the title is the one the file name gives
NextForm ==
    \/ OpenChange
    \/ EditSettings
    \/ handleFileSelect
    \/ handleUpload
    \/ \E k \in 1..MaxRuns : initializeUploadOk(k)
    \/ \E k \in 1..MaxRuns : initializeUploadFail(k)
    \/ \E k \in 1..MaxRuns : uploadChunkOk(k)
    \/ \E k \in 1..MaxRuns : uploadChunkFail(k)
    \/ \E k \in 1..MaxRuns : completeUploadOk(k)
    \/ \E k \in 1..MaxRuns : completeUploadFail(k)

SpecForm == InitForm /\ [][NextForm]_vars

\* ------------------------------------------------------------- speed
\* The elapsed times of the speed runs: none (the same millisecond) and one unit
Elapsed == {0, 1}

\* The dialog is open and the clock can show any of the elapsed times
InitSpeed ==
    /\ enableResume \in BOOLEAN
    /\ chunkSize = ChunkSize
    /\ maxFileSize = MaxFileSize
    /\ open = TRUE
    /\ videoFile = Null
    /\ videoMetadata = Null
    /\ title = ""
    /\ settings = DefaultSettings
    /\ disk = ValidFiles
    /\ clock = Elapsed
    /\ uploadProgress = IdleProgress
    /\ uploadId = Null /\ uploadUrl = Null
    /\ uploadPreset = Null /\ cloudName = Null
    /\ runs = <<>>
    /\ lastReturned = Null
    /\ rejected = Null
    /\ NoRefundList

\* The user picks the file and clicks Upload; the requests are answered
NextSpeed ==
    \/ handleFileSelect
    \/ handleUpload
    \/ \E k \in 1..MaxRuns : initializeUploadOk(k)
    \/ \E k \in 1..MaxRuns : initializeUploadFail(k)
    \/ \E k \in 1..MaxRuns : uploadChunkOk(k)
    \/ \E k \in 1..MaxRuns : uploadChunkFail(k)
    \/ \E k \in 1..MaxRuns : completeUploadOk(k)
    \/ \E k \in 1..MaxRuns : completeUploadFail(k)

SpecSpeed == InitSpeed /\ [][NextSpeed]_vars

\* ------------------------------------------------------------- refunds
\* RefundRequestsSection: the list of refund requests with its Accept and
\* Reject buttons.  A request is its _id, its requestStatus and whether
\* updatedAt has been rewritten; loadingStates[id] is unset, true or false.
RequestIds == 1..MaxRequests
RequestStatuses == {"pending", "accepted", "rejected"}

\* Variant of the update that rewrites every request of the list
UpdatedRequestsAll(prev, requestId, status) ==
    [j \in 1..Len(prev) |-> [prev[j] EXCEPT !.requestStatus = status, !.updated = TRUE]]

\* prev.map(req => req._id === requestId
\*                   ? { ...req, requestStatus: status, updatedAt: new Date() } : req)
UpdatedRequests(prev, requestId, status) ==
    [j \in 1..Len(prev) |->
        IF prev[j].id = requestId
          THEN [prev[j] EXCEPT !.requestStatus = status, !.updated = TRUE]
          ELSE prev[j]]

\* prev => ({ ...prev, [requestId]: flag })
WithLoading(prev, requestId, flag) == [prev EXCEPT ![requestId] = Some(flag)]

\* The list as constructed from initialRequests, the upload dialog unused
InitRefund ==
    /\ enableResume = TRUE
    /\ chunkSize = ChunkSize
    /\ maxFileSize = MaxFileSize
    /\ open = FALSE
    /\ videoFile = Null
    /\ videoMetadata = Null
    /\ title = ""
    /\ settings = DefaultSettings
    /\ disk = {}
    /\ clock = {1}
    /\ uploadProgress = IdleProgress
    /\ uploadId = Null /\ uploadUrl = Null
    /\ uploadPreset = Null /\ cloudName = Null
    /\ runs = <<>>
    /\ lastReturned = Null
    /\ rejected = Null
    /\ \E initial \in [RequestIds -> RequestStatuses] :
        requests = [j \in RequestIds |->
                       [id |-> j, requestStatus |-> initial[j], updated |-> FALSE]]
    /\ loadingStates = [j \in RequestIds |-> Null]
    /\ calls = {}

\* An Accept or Reject button is clicked: the buttons are rendered for the
\* pending requests and disabled while loadingStates[request._id] is true.
\* handleStatusUpdate up to its await of the PUT
handleStatusUpdate(requestId, status) ==
    /\ \E j \in 1..Len(requests) :
        requests[j].id = requestId /\ requests[j].requestStatus = "pending"
    /\ loadingStates[requestId] # Some(TRUE)
    /\ loadingStates' = WithLoading(loadingStates, requestId, TRUE)
    /\ calls' = calls \cup {[requestId |-> requestId, status |-> status]}
    /\ UNCHANGED <<requests, dialog>>

\* the PUT answered 2xx with a JSON body: the list is updated, then finally
statusUpdateOk(call) ==
    /\ call \in calls
    /\ requests' = UpdatedRequests(requests, call.requestId, call.status)
    /\ loadingStates' = WithLoading(loadingStates, call.requestId, FALSE)
    /\ calls' = calls \ {call}
    /\ UNCHANGED dialog

\* the PUT answered non-2xx, the fetch failed, or the body was not JSON: the
\* catch raises a toast, then finally
statusUpdateFail(call) ==
    /\ call \in calls
    /\ loadingStates' = WithLoading(loadingStates, call.requestId, FALSE)
    /\ calls' = calls \ {call}
    /\ UNCHANGED <<requests, dialog>>

\* The calls the buttons can make
StatusUpdates == {[requestId |-> j, status |-> st] : j \in RequestIds, st \in {"accepted", "rejected"}}

NextRefund ==
    \/ \E call \in StatusUpdates : handleStatusUpdate(call.requestId, call.status)
    \/ \E call \in StatusUpdates : statusUpdateOk(call)
    \/ \E call \in StatusUpdates : statusUpdateFail(call)

SpecRefund == InitRefund /\ [][NextRefund]_vars

\* ------------------------------------------------------------- claims
\* The request log of a run in flight or of the run that just returned
LastReq(r) == r.reqs[Len(r.reqs)]
ChunkReqs(r) == {j \in 1..Len(r.reqs) : r.reqs[j].kind = "chunk"}
CompleteReqs(r) == {j \in 1..Len(r.reqs) : r.reqs[j].kind = "complete"}
InitSucceeded(r) == r.reqs[1].kind = "init" /\ r.reqs[1].res = "ok"
HasFailedChunk(r) == \E j \in ChunkReqs(r) : r.reqs[j].res = "fail"
InFlight == {runs[k] : k \in 1..Len(runs)}
JustReturned == IF lastReturned = Null THEN {} ELSE {lastReturned[1]}
BuiltCount(run) == IF run.built = Null THEN 0 ELSE Len(run.built[1])

\* C1: every handleUpload run made with a file and a non-blank title whose
\* network calls have all returned has driven the status to completed or
\* error, and the status is not left at uploading once no run is in flight.
C1_UploadEndsCompletedOrError ==
    /\ \A r \in JustReturned : r.result \in {"completed", "error"}
    /\ runs = <<>> => uploadProgress.status # "uploading"

\* C2: a run sets the status to completed only when every chunk of the job
\* has uploaded = true and its completion handshake returned success.
C2_CompletedOnlyWithAllChunksUploaded ==
    \A r \in JustReturned :
        r.result = "completed" =>
            /\ LastReq(r).kind = "complete" /\ LastReq(r).res = "ok"
            /\ r.completedAs # Null
            /\ Len(r.completedAs[1]) > 0
            /\ \A c \in 1..Len(r.completedAs[1]) : r.completedAs[1][c].uploaded

\* The ordering part of C3 for one request log, given the number of chunks
\* the run's own init built
PhasesInOrder(r, built) ==
    /\ r.reqs[1].kind = "init"
    /\ \A j \in 2..Len(r.reqs) : r.reqs[j].kind # "init"
    /\ ChunkReqs(r) # {} => InitSucceeded(r)
    /\ CompleteReqs(r) # {} => InitSucceeded(r)
    /\ \A j \in CompleteReqs(r) :
        /\ j = Len(r.reqs)
        /\ {r.reqs[m].index : m \in ChunkReqs(r)} = 0..(built - 1)
    /\ \A j \in 1..(Len(r.reqs) - 1) : r.reqs[j].res # "pending"

\* C3: within one handleUpload run the three phases happen in order and none
\* is skipped: chunk requests only after the init call succeeded, the
\* completion request only after the loop went through every chunk, every
\* call awaited before the next, and a run whose init succeeded and that no
\* chunk failure aborted does send the completion request.
C3_PhasesInOrderNoneSkipped ==
    /\ \A run \in InFlight : PhasesInOrder(run, BuiltCount(run))
    /\ \A r \in JustReturned :
        /\ PhasesInOrder(r, r.built)
        /\ (InitSucceeded(r) /\ ~(HasFailedChunk(r) /\ r.result = "error"))
              => CompleteReqs(r) # {}

\* C4: initializeUpload partitions a file of fileSize > 0 bytes with
\* chunkSize > 0 into ceil(fileSize / chunkSize) chunks with index i at
\* position i, contiguous from 0 to fileSize, all of length chunkSize but the
\* last, which has length fileSize - chunkSize * (count - 1); 12 with chunks
\* of 5 gives 5, 5, 2.
C4_ChunkPartitioning ==
    LET cs == uploadProgress.chunks
        n == Len(cs)
        fileSize == uploadProgress.total
    IN  uploadProgress.status = "uploading" =>
            /\ fileSize > 0 /\ n > 0
            /\ n = (fileSize + chunkSize - 1) \div chunkSize
            /\ \A i \in 1..n : cs[i].index = i - 1
            /\ cs[1].start = 0
            /\ \A i \in 1..(n - 1) : cs[i].end = cs[i + 1].start
            /\ cs[n].end = fileSize
            /\ \A i \in 1..(n - 1) : ChunkBytes(cs[i]) = chunkSize
            /\ ChunkBytes(cs[n]) = fileSize - chunkSize * (n - 1)
            /\ ChunkBytes(cs[n]) > 0
            /\ (fileSize = 12 /\ chunkSize = 5) =>
                  [i \in 1..n |-> ChunkBytes(cs[i])] = <<5, 5, 2>>

\* C4 witness: the 12 / 5 scenario has been partitioned
C4_Witness ==
    /\ uploadProgress.status = "uploading"
    /\ uploadProgress.total = 12 /\ chunkSize = 5
    /\ Len(uploadProgress.chunks) = 3

\* C5: chunks are transferred strictly in index order and never in parallel:
\* at most one chunk request is in flight at any time, and a run requests
\* chunk i + 1 only after its request for chunk i has returned.
C5_ChunksSequentialOneInFlight ==
    /\ Cardinality({k \in 1..Len(runs) : runs[k].pc = "chunk"}) <= 1
    /\ \A run \in InFlight :
        \A j \in ChunkReqs(run), m \in ChunkReqs(run) :
            j < m => /\ run.reqs[j].index < run.reqs[m].index
                     /\ run.reqs[j].res # "pending"

\* C6: with enableResume a failed chunk is left uploaded = false, is not
\* retried and the loop continues, so every chunk index of the job is
\* attempted exactly once whatever fails.
C6_EveryChunkAttemptedOnce ==
    enableResume =>
        \A r \in JustReturned :
            InitSucceeded(r) =>
                \A index \in 0..(r.built - 1) :
                    Cardinality({j \in ChunkReqs(r) : r.reqs[j].index = index}) = 1

\* C7: with enableResume = false the first failed chunk transfer ends the run
\* with status error at once: the failed request is the last request of the
\* run (no higher chunk, no completion request).
C7_FatalChunkFailureAborts ==
    ~enableResume =>
        /\ \A run \in InFlight : ~HasFailedChunk(run)
        /\ \A r \in JustReturned :
            HasFailedChunk(r) =>
                /\ LastReq(r).kind = "chunk" /\ LastReq(r).res = "fail"
                /\ CompleteReqs(r) = {}
                /\ r.result = "error"
                /\ uploadProgress.status = "error"

\* C7 witness: chunk 0 of a two-chunk job failed without resumability
C7_Witness ==
    /\ ~enableResume
    /\ \E r \in JustReturned :
        /\ LastReq(r).kind = "chunk" /\ LastReq(r).res = "fail"
        /\ LastReq(r).index = 0
        /\ r.built = 2
    /\ uploadProgress.status = "error"

\* C8: onSuccess is invoked at most once per run and only after that run's
\* completion handshake returned success; never after a failed init, an
\* aborting chunk failure or a failed handshake.
C8_OnSuccessOnceAfterHandshake ==
    /\ \A run \in InFlight : run.onSuccessCalls = 0
    /\ \A r \in JustReturned :
        /\ r.onSuccessCalls <= 1
        /\ r.onSuccessCalls = 1 =>
              LastReq(r).kind = "complete" /\ LastReq(r).res = "ok"
        /\ LastReq(r).res = "fail" /\ r.result = "error" => r.onSuccessCalls = 0

\* C8 witness: a run whose handshake succeeded has called onSuccess
C8_Witness ==
    \E r \in JustReturned :
        /\ r.onSuccessCalls = 1
        /\ LastReq(r).kind = "complete" /\ LastReq(r).res = "ok"

\* The step just taken handled a failed completion handshake
CompleteJustFailed ==
    \E r \in JustReturned : LastReq(r).kind = "complete" /\ LastReq(r).res = "fail"

\* C9: when the completion handshake fails the status becomes error with a
\* non-empty message and the chunks' uploaded flags and the uploaded byte
\* counter stay as they were (no rollback).
C9_CompleteFailureKeepsChunks ==
    [][CompleteJustFailed' =>
          /\ uploadProgress'.status = "error"
          /\ uploadProgress'.error # Null /\ uploadProgress'.error[1] # ""
          /\ uploadProgress'.chunks = uploadProgress.chunks
          /\ uploadProgress'.uploaded = uploadProgress.uploaded
          /\ uploadProgress'.total = uploadProgress.total]_vars

\* C9 witness: the handshake failed after a chunk had been marked uploaded
C9_Witness ==
    /\ CompleteJustFailed
    /\ uploadProgress.status = "error"
    /\ uploadProgress.uploaded > 0
    /\ \E c \in 1..Len(uploadProgress.chunks) : uploadProgress.chunks[c].uploaded

\* C10: a failed session-init call is fatal: the status becomes error and the
\* run sends no chunk request and no completion request.
C10_InitFailureIsFatal ==
    /\ \A run \in InFlight : run.reqs[1].res # "fail"
    /\ \A r \in JustReturned :
        r.reqs[1].res = "fail" =>
            /\ Len(r.reqs) = 1
            /\ r.result = "error"
            /\ uploadProgress.status = "error"
            /\ uploadProgress.error # Null

\* C10 witness: init failed in a dialog that holds a session and chunks of an
\* earlier run
C10_Witness ==
    /\ \E r \in JustReturned : r.reqs[1].res = "fail" /\ Len(r.reqs) = 1
    /\ uploadProgress.status = "error"
    /\ uploadProgress.chunks # <<>>
    /\ uploadId # Null

\* The final chunk of the list the run reads has been transferred
FinalChunkDone(run) ==
    \E j \in ChunkReqs(run) :
        run.reqs[j].index = Len(run.cChunks) - 1 /\ run.reqs[j].res = "ok"

\* The values the run set after its latest successful chunk
LastWrote(run) == run.wrote[Len(run.wrote)]

\* A percentage (uploadedBytes / prev.total) * 100 kept as the fraction
\* num / den; den = 0 with num > 0 is Infinity
Is100(pct) == pct.den # 0 /\ pct.num = 100 * pct.den
PctLeq(a, b) == a.num * b.den <= b.num * a.den

\* C11: once the request for the final chunk of a run has succeeded, the
\* percentage that run set is exactly 100.
C11_FinalChunkGives100 ==
    \A run \in InFlight : FinalChunkDone(run) => Is100(LastWrote(run).percentage)

\* C12: within one run the uploaded byte counter and the percentage set after
\* a successful chunk are never below those set after its previous
\* successful chunk.
C12_ProgressNeverDecreases ==
    \A run \in InFlight :
        \A j \in 1..(Len(run.wrote) - 1) :
            /\ run.wrote[j].uploaded <= run.wrote[j + 1].uploaded
            /\ PctLeq(run.wrote[j].percentage, run.wrote[j + 1].percentage)

\* The conditions the validation claims speak of
WithinSizeLimit(f) == f.size <= maxFileSize
ExtensionAllowed(f) == toLowerCase(f.name[Len(f.name)]) \in SUPPORTED_FORMATS
DeclaredVideo(f) == f.type \in VideoTypes

\* C13 as stated: validateFile passes every file whose size is within the
\* limit and whose lowercased extension is allowed, so handleFileSelect
\* refuses no such file.
C13_SizeAndExtensionSuffice ==
    rejected # Null =>
        ~(WithinSizeLimit(rejected[1].file) /\ ExtensionAllowed(rejected[1].file))

\* C13: validateFile passes every file whose size is within the limit, whose
\* lowercased extension is allowed and whose declared media type is a video
\* type, so handleFileSelect refuses no such file.
C13_ValidFilePasses ==
    /\ \A f \in disk :
          (WithinSizeLimit(f) /\ ExtensionAllowed(f) /\ DeclaredVideo(f))
              => validateFile(f).valid
    /\ rejected # Null =>
          ~(/\ WithinSizeLimit(rejected[1].file)
            /\ ExtensionAllowed(rejected[1].file)
            /\ DeclaredVideo(rejected[1].file))

\* A file of exactly the size limit with an upper-case extension was picked
\* and is the selected file
C13_Witness ==
    /\ videoFile # Null
    /\ videoFile[1].size = maxFileSize
    /\ videoFile[1].name[2] = "MP4"
    /\ rejected = Null

FailsValidation(f) == ~WithinSizeLimit(f) \/ ~ExtensionAllowed(f) \/ ~DeclaredVideo(f)

\* C14: a file that is over the size limit, has an extension that is not
\* allowed or a declared type that is not a video type never becomes the
\* selected file and is never the file of a handleUpload run, so no
\* session-init, chunk or completion request is made for it.
C14_InvalidFileNeverSent ==
    /\ videoFile # Null => ~FailsValidation(videoFile[1])
    /\ \A run \in InFlight : ~FailsValidation(run.cFile)
    /\ rejected # Null => lastReturned = Null

\* A .txt file has just been refused while the chunk request of a run for
\* another file is in flight
C14_Witness ==
    /\ rejected # Null
    /\ rejected[1].file.name[2] = "txt"
    /\ \E run \in InFlight : run.pc = "chunk" /\ run.cFile # rejected[1].file

\* The titles that are empty after trimming
BlankTitles == {"", "  "}

\* What handleUpload needs, in the claim's words: the dialog shown, a file,
\* a title that is not blank, and no upload under way
FileAndTitlePresent ==
    open /\ videoFile # Null /\ title \notin BlankTitles /\ uploadProgress.status # "uploading"

C16_AtMostOneRun == Len(runs) <= 1

\* C17: every chunk request and the completion request of a run carry the
\* uploadId that the run's own session-init response returned.
C17_RequestsCarryOwnUploadId ==
    \A run \in InFlight :
        \A j \in ChunkReqs(run) \cup CompleteReqs(run) :
            run.reqs[j].uploadId = run.issued

\* The status is error and the error string is set and not empty
StatusIsError ==
    /\ uploadProgress.status = "error"
    /\ uploadProgress.error # Null
    /\ uploadProgress.error[1] # ""

\* C18 as stated: when a run returns after a failed request, and when a file
\* has been refused by the validation, the status is error with a non-empty
\* error string.
C18_EveryErrorSetsStatusError ==
    /\ \A r \in JustReturned : LastReq(r).res = "fail" => StatusIsError
    /\ rejected # Null => StatusIsError

\* What a step that handles an error leaves behind
ErrorsCaughtStep ==
    /\ \A r \in JustReturned' : LastReq(r).res = "fail" => StatusIsError'
    /\ rejected' # Null =>
          /\ rejected'[1].error # ""
          /\ uploadProgress' = uploadProgress
          /\ runs' = runs
    /\ \A k \in 1..MaxRuns :
          (enableResume /\ uploadChunkFail(k)) =>
              /\ uploadProgress'.status = uploadProgress.status
              /\ uploadProgress'.error = uploadProgress.error
              /\ Len(runs') = Len(runs)
    /\ \A k \in 1..MaxRuns :
          (initializeUploadFail(k) \/ completeUploadFail(k)
              \/ (~enableResume /\ uploadChunkFail(k)))
            => (lastReturned' # Null /\ LastReq(lastReturned'[1]).res = "fail")

\* C18: a failed session-init call, a failed completion call and, without
\* enableResume, a failed chunk request end the run normally in the same step
\* with status error and a non-empty error string; a file refused by the
\* validation gets a toast with a non-empty text and leaves progress and runs
\* as they were; with enableResume a failed chunk request leaves status and
\* error string as they were and the run goes on.
C18_ErrorsCaught == [][ErrorsCaughtStep]_vars

\* A file has just been refused while the status is error with the message
\* of an earlier failed completion call
C18_Witness ==
    /\ rejected # Null
    /\ uploadProgress.status = "error"
    /\ uploadProgress.error = Some("Failed to complete upload")

\* Every form field and all job state hold their initial values
AtDefaults ==
    /\ videoFile = Null
    /\ videoMetadata = Null
    /\ title = ""
    /\ settings = DefaultSettings
    /\ uploadProgress = IdleProgress
    /\ uploadId = Null /\ uploadUrl = Null
    /\ uploadPreset = Null /\ cloudName = Null

\* C19: a click on Cancel, and a close of the open dialog, leave every form
\* field and all job state at their defaults.
C19_CancelAndCloseReset ==
    [][(CancelButton \/ (open /\ OpenChange)) => AtDefaults']_vars

\* C20: when a run has set the status to completed, in that step every form
\* field and all job state are back at their defaults and the dialog is
\* closed.
C20_CompletionResets ==
    \A r \in JustReturned : r.result = "completed" => (AtDefaults /\ ~open)

\* A run has just completed while another run, started from the same form,
\* is still in flight
C20_Witness ==
    /\ lastReturned # Null
    /\ lastReturned[1].result = "completed"
    /\ lastReturned[1].onSuccessCalls = 1
    /\ runs # <<>>
    /\ ~open

\* A step taken while the dialog is closed: no run in flight sends a further
\* request and no run that returns has called onSuccess
AbandonedStep ==
    ~open =>
        /\ Len(runs') = Len(runs) =>
              \A k \in 1..Len(runs) : Len(runs'[k].reqs) <= Len(runs[k].reqs)
        /\ \A r \in JustReturned' : r.onSuccessCalls = 0

\* C21: once the dialog is closed, the runs in flight issue no further chunk
\* request and no completion request, and onSuccess is not called for them.
C21_CloseAbandonsJob == [][AbandonedStep]_vars

\* What a run's own init leaves in the progress value, by the claim: the
\* chunk list just built and idle counters
FreshJobStep ==
    \A k \in 1..MaxRuns :
        initializeUploadOk(k) =>
            /\ \A c \in 1..Len(uploadProgress'.chunks) : ~uploadProgress'.chunks[c].uploaded
            /\ uploadProgress'.uploaded = IdleProgress.uploaded
            /\ uploadProgress'.percentage = IdleProgress.percentage
            /\ uploadProgress'.error = IdleProgress.error

\* C22: when the init call of a run has succeeded, the chunk list is newly
\* built with every uploaded flag false and the uploaded counter, the
\* percentage and the error string are at their idle defaults.
C22_NewJobStartsFresh == [][FreshJobStep]_vars

\* C23: in every state the percentage equals uploaded / total * 100 (0 while
\* nothing has been counted against a total of 0) and lies between 0 and 100.
C23_PercentageIsRatioWithinRange ==
    LET pct == uploadProgress.percentage
    IN  /\ pct.den > 0
        /\ 0 <= pct.num /\ pct.num <= 100 * pct.den
        /\ IF uploadProgress.total = 0
              THEN uploadProgress.uploaded = 0 /\ pct.num = 0
              ELSE pct.num * uploadProgress.total = uploadProgress.uploaded * 100 * pct.den

\* The speed and the remaining time of one progress update, by the claim:
\* the two quotients, and no finite remaining time when nothing has elapsed
\* or the speed is 0
SpeedAsClaimed(w, total) ==
    IF w.elapsed = 0 \/ w.uploaded = 0
      THEN w.remaining.den = 0
      ELSE /\ w.speed.den > 0
           /\ w.speed.num * w.elapsed = w.uploaded * w.speed.den
           /\ w.remaining.den > 0
           /\ w.remaining.num * w.uploaded = (total - w.uploaded) * w.elapsed * w.remaining.den

\* C24: after each successful chunk of a run, speed is uploadedBytes /
\* elapsed and remaining is (total - uploaded) / speed, and with no time
\* elapsed or a speed of 0 the remaining time is unknown or infinite.
C24_SpeedAndRemaining ==
    \A run \in InFlight :
        \A j \in 1..Len(run.wrote) : SpeedAsClaimed(run.wrote[j], run.cTotal)

\* A step of handleFileSelect in which a file passed the validation and its
\* metadata could not be read
MetadataFailureStep ==
    \A file \in disk :
        (validateFile(file).valid /\ handleFileSelect /\ handleFileSelectOf(file, FALSE)) =>
            /\ videoFile' = Some(file)
            /\ uploadProgress' = uploadProgress

\* C25: when the metadata of a file that passed validation cannot be read,
\* the file is the selected file and the progress value, status included, is
\* as it was; and in every state with a file but no metadata the upload can
\* be started as soon as the title is not blank.
C25_MetadataFailureNotFatal ==
    [][/\ MetadataFailureStep
       /\ (videoMetadata = Null /\ FileAndTitlePresent /\ Len(runs) < MaxRuns)
             => ENABLED handleUpload]_vars

\* A run was started, with a title typed by hand, for a file whose metadata
\* could not be read; the status is still idle
C25_Witness ==
    /\ videoFile # Null
    /\ videoMetadata = Null
    /\ title = "lesson"
    /\ uploadProgress.status = "idle"
    /\ \E run \in InFlight : run.pc = "init" /\ run.cFile = videoFile[1]

\* C26: a run whose init call succeeded iterates the chunk list that call
\* built, so it sends chunk requests when that list is not empty, and reads
\* uploadUrl, uploadPreset and cloudName as that call returned them.
C26_RunUsesOwnInitResults ==
    /\ \A run \in InFlight :
          run.built # Null =>
              /\ run.cChunks = [c \in 1..Len(run.built[1]) |-> ChunkData(run.built[1][c])]
              /\ run.cUploadUrl = run.issued
              /\ run.cUploadPreset = run.issued
              /\ run.cCloudName = run.issued
    /\ \A r \in JustReturned :
          (InitSucceeded(r) /\ r.built > 0) => ChunkReqs(r) # {}

\* The summed lengths of the chunks of a list whose uploaded flag is true
RECURSIVE UploadedLength(_)
UploadedLength(chunks) ==
    IF chunks = <<>>
      THEN 0
      ELSE (IF chunks[1].uploaded THEN ChunkBytes(chunks[1]) ELSE 0)
           + UploadedLength(Tail(chunks))

\* C27: in every state the uploaded byte counter equals the sum of the
\* lengths of the chunks whose uploaded flag is true.
C27_UploadedMatchesFlags ==
    uploadProgress.uploaded = UploadedLength(uploadProgress.chunks)

\* The changes of status the claim allows in one step
StatusStep ==
    LET old == uploadProgress.status
        new == uploadProgress'.status
    IN  /\ new # "processing"
        /\ new # old =>
              \/ new = "error"
              \/ new = "uploading" /\ \E k \in 1..MaxRuns : initializeUploadOk(k)
              \/ new = "idle" /\ \E k \in 1..MaxRuns : completeUploadOk(k)

\* C28 without its last clause: the status is never processing, and it
\* changes only to uploading in the step of a successful init, to error, and
\* to idle in the step of a successful completion (completed, then reset).
C28_StatusTransitions == [][StatusStep]_vars

\* C28: the status is never processing and changes only as above, and it is
\* uploading in every state in which a completion request is in flight.
C28_NoProcessingUploadingDuringHandshake ==
    /\ uploadProgress.status \in {"idle", "uploading", "completed", "error"}
    /\ (\E run \in InFlight : run.pc = "complete") => uploadProgress.status = "uploading"

\* A step in which a file is refused changes nothing but the toast, and a
\* step in which Upload is clicked starts a run for the selected file
RefusalKeepsSelectionStep ==
    /\ rejected' # Null =>
          UNCHANGED <<open, videoFile, videoMetadata, title, settings,
                      uploadProgress, session, runs>>
    /\ handleUpload => runs'[Len(runs')].cFile = videoFile[1]

\* C29: a file selection that fails validation leaves file, metadata, title
\* and all other state as they were, and a later handleUpload run is for the
\* file that was selected before.
C29_InvalidSelectionChangesNothing == [][RefusalKeepsSelectionStep]_vars

\* A file has just been refused while a run for the file accepted before it,
\* which is still the selected file, is in flight
C29_Witness ==
    /\ rejected # Null
    /\ videoFile # Null
    /\ videoFile[1] # rejected[1].file
    /\ videoMetadata # Null
    /\ \E run \in InFlight : run.pc = "init" /\ run.cFile = videoFile[1]


\* The step of a handleStatusUpdate call that finishes: on an OK response
\* exactly the request of the given id takes the requested status, on a
\* failure the list stays as it was, and either way the loading flag of the
\* request is false afterwards; nothing else changes the list
StatusUpdateStep ==
    /\ \A call \in calls :
        statusUpdateOk(call) =>
            /\ call.status \in {"accepted", "rejected"}
            /\ Len(requests') = Len(requests)
            /\ \A j \in 1..Len(requests) :
                /\ requests[j].id = call.requestId =>
                       /\ requests'[j].id = call.requestId
                       /\ requests'[j].requestStatus = call.status
                /\ requests[j].id # call.requestId => requests'[j] = requests[j]
    /\ \A call \in calls : statusUpdateFail(call) => requests' = requests
    /\ requests' # requests => \E call \in calls : statusUpdateOk(call)
    /\ \A call \in calls :
        statusUpdateOk(call) \/ statusUpdateFail(call) =>
            loadingStates'[call.requestId] = Some(FALSE)

\* C30: handleStatusUpdate changes the local list only on an OK response, and
\* then only the request with the given id, to the requested status; on a
\* failed response the list is unchanged; the request's loading flag is false
\* whenever handleStatusUpdate finishes
C30_StatusUpdateOnlyOnOk == [][StatusUpdateStep]_vars

\* One request was accepted, the update of another failed and left it pending,
\* a third was never touched, and no call is under way
C30_Witness ==
    /\ Len(requests) = MaxRequests
    /\ calls = {}
    /\ requests[1].requestStatus = "accepted" /\ requests[1].updated
    /\ loadingStates[1] = Some(FALSE)
    /\ requests[2].requestStatus = "pending" /\ ~requests[2].updated
    /\ loadingStates[2] = Some(FALSE)
    /\ requests[3].requestStatus = "pending" /\ loadingStates[3] = Null

====
